---- MODULE Spec2Model ----
(***************************************************************************)
(* Session-scoped ingestion and retrieval of gait readings                 *)
(* (gait-data-handler).  The handlers of src/src/handlers run against a    *)
(* relational store (D1); every handler is a sequence of synchronous       *)
(* segments separated by awaited store calls.  A segment that issues a     *)
(* store call and the segment that consumes its reply are separate steps,  *)
(* so requests interleave at the granularity of their store calls.         *)
(*                                                                         *)
(* Text values.  Timestamps are strings: a string is a sequence of digits  *)
(* and the store compares and orders them as TEXT (byte-wise).  A nullable *)
(* column or field is a sequence of length 0 (NULL) or 1 (a value).        *)
(***************************************************************************)
EXTENDS Integers, Sequences, FiniteSets, TLC

\* ---------------------------------------------------------------- bounds
NumProcs == 2      \* requests in flight at the same time
MaxClock == 2      \* the wall clock runs over 0..MaxClock
MaxBatch == 2      \* entries in one ingestion batch
MaxRows == 2       \* rows the reading store holds at most
MaxRequests == 4   \* requests that get past validation in one run
MaxStamp == 1      \* readings are stamped 0..MaxStamp

Procs == 1..NumProcs
Names == {"exp1", "exp2"}          \* experiment names requests carry

NULL == <<>>
Some(v) == <<v>>

Min(a, b) == IF a <= b THEN a ELSE b

\* ----------------------------------------------------------- text values
\* new Date().toISOString(): a fixed-width rendering of the clock.
ToISOString(t) == <<t \div 10, t % 10>>

\* TEXT comparison a <= b of the store (byte-wise, a prefix sorts first).
RECURSIVE StrLeq(_, _)
StrLeq(a, b) ==
    IF a = <<>> THEN TRUE
    ELSE IF b = <<>> THEN FALSE
    ELSE IF Head(a) < Head(b) THEN TRUE
    ELSE IF Head(a) > Head(b) THEN FALSE
    ELSE StrLeq(Tail(a), Tail(b))

StrLess(a, b) == StrLeq(a, b) /\ a # b

\* x || null of the handlers: an absent or empty text is stored as NULL.
OrNull(s) == IF s = "" THEN NULL ELSE Some(s)

\* ------------------------------------------------------------- the store
\* Messages the store attaches to a failure.
UniqueMsg == "UNIQUE constraint failed: experiment_sessions.experiment_name"
OtherMsg == "D1_ERROR: storage operation failed"

\* msg.toLowerCase().includes('unique constraint failed') ||
\* msg.toLowerCase().includes('primary key constraint failed')
IsUniqueViolation(msg) == msg = UniqueMsg

\* A reply of the store to one statement: a result object
\* {success, error, meta.changes}, or a raised exception with its cause.
OkReply(n) ==
    [kind |-> "result", success |-> TRUE, message |-> "", cause |-> "", changes |-> n]
FailReply(msg) ==
    [kind |-> "result", success |-> FALSE, message |-> msg, cause |-> "", changes |-> 0]
ThrowReply(msg, cause) ==
    [kind |-> "throw", success |-> FALSE, message |-> msg, cause |-> cause, changes |-> 0]

\* Failures unrelated to the statement's own constraints.
FaultReplies == {FailReply(OtherMsg), ThrowReply(OtherMsg, "")}

VARIABLES
    experiment_sessions,   \* the session registry: a set of rows
    gait_data,             \* the reading store: rows in insertion order
    clock,                 \* the wall clock new Date() reads
    pc,                    \* per request slot: the store call it awaits
    loc,                   \* per request slot: the handler's local values
    response,              \* the response the latest step returned
    created,               \* per name: success responses of start so far
    admitted               \* requests that passed validation so far

vars == <<experiment_sessions, gait_data, clock, pc, loc, response, created, admitted>>

\* A request takes the first free slot (slots are interchangeable), and at
\* most MaxRequests requests get past validation in one run.
Free(p) == pc[p] = "idle" /\ \A q \in Procs : q < p => pc[q] # "idle"
CanAdmit == admitted < MaxRequests

RowsFor(sessions, n) == {r \in sessions : r.experiment_name = n}

NoLoc == [op |-> "none"]
NoResponse == [op |-> "none", status |-> 0]

\* ================================================================= start
\* Request bodies: unparsable text, JSON null, or an object whose
\* experiment_name / notes are "" when absent or empty.
StartBodies ==
    {[kind |-> "badjson", experiment_name |-> "", notes |-> ""],
     [kind |-> "null", experiment_name |-> "", notes |-> ""],
     [kind |-> "object", experiment_name |-> "", notes |-> ""],
     [kind |-> "object", experiment_name |-> "exp1", notes |-> "n"],
     [kind |-> "object", experiment_name |-> "exp2", notes |-> ""]}

StartResponse(status, name, db) ==
    [op |-> "start", status |-> status, name |-> name, db |-> db,
     start_time |-> NULL, notes |-> NULL]

\* INSERT INTO experiment_sessions (experiment_name, start_time, notes):
\* experiment_name is the primary key, end_time starts NULL.
SessionRow(l) ==
    [experiment_name |-> l.name, start_time |-> l.startTimeUTC,
     end_time |-> NULL, notes |-> OrNull(l.notes)]

\* What the store may answer to the insert.
InsertReplies(sessions, name) ==
    IF RowsFor(sessions, name) # {}
    THEN {FailReply(UniqueMsg), ThrowReply("D1_ERROR", UniqueMsg)}
    ELSE {OkReply(1)}

\* An insert that replaces the row of the same name (INSERT OR REPLACE).
D1InsertSessionReplace(sessions, row, reply) ==
    {r \in sessions : r.experiment_name # row.experiment_name} \cup {row}

\* A store that has written the row before it reports an unrelated failure.
D1InsertSessionThenFail(sessions, row, reply) ==
    IF (reply.kind = "result" /\ reply.success) \/ reply \in FaultReplies
    THEN sessions \cup {row} ELSE sessions

D1InsertSession(sessions, row, reply) ==
    IF reply.kind = "result" /\ reply.success THEN sessions \cup {row} ELSE sessions

\* How the store dealt with the statement, for the observer.
DbOutcome(reply) ==
    IF reply.kind = "result" /\ reply.success THEN "ok"
    ELSE IF IsUniqueViolation(reply.message) \/ IsUniqueViolation(reply.cause)
         THEN "unique"
    ELSE IF reply.kind = "throw" THEN "throw" ELSE "error"

\* A handler that does not recognise the uniqueness rejection.
StartRespondNoConflict(l, reply) ==
    IF reply.kind = "result" /\ reply.success
    THEN [StartResponse(201, l.name, DbOutcome(reply)) EXCEPT
            !.start_time = Some(l.startTimeUTC), !.notes = OrNull(l.notes)]
    ELSE StartResponse(500, l.name, DbOutcome(reply))

\* The handler after the awaited run() of the insert.
StartRespond(l, reply) ==
    IF reply.kind = "result"
    THEN IF reply.success
         THEN [StartResponse(201, l.name, DbOutcome(reply)) EXCEPT
                 !.start_time = Some(l.startTimeUTC), !.notes = OrNull(l.notes)]
         ELSE IF IsUniqueViolation(reply.message)
              THEN StartResponse(409, l.name, DbOutcome(reply))
              ELSE StartResponse(500, l.name, DbOutcome(reply))
    ELSE IF reply.cause # "" /\ IsUniqueViolation(reply.cause)
         THEN StartResponse(409, l.name, DbOutcome(reply))
         ELSE StartResponse(500, l.name, DbOutcome(reply))

StartRequests ==
    {[method |-> "GET", body |-> [kind |-> "badjson", experiment_name |-> "", notes |-> ""]]}
    \cup [method : {"POST"}, body : StartBodies]

\* The checks before the store call: the answer they give, or 0 for a JSON
\* null body, which faults at payload.experiment_name outside every try block
\* (no response is returned).
StartPasses(req) ==
    req.method = "POST" /\ req.body.kind = "object" /\ req.body.experiment_name # ""
StartRejects(req) ==
    IF req.method # "POST" THEN 405
    ELSE IF req.body.kind = "badjson" THEN 400
    ELSE IF req.body.kind = "null" THEN 0
    ELSE 400

\* handleStartSession up to the awaited run(): method check, body parse,
\* field check, clock read.
StartRequest(p, requests) ==
    /\ Free(p)
    /\ \E req \in requests :
         IF ~StartPasses(req)
         THEN /\ response' = StartResponse(StartRejects(req), "", "none")
              /\ UNCHANGED <<pc, loc, admitted>>
         ELSE /\ CanAdmit
              /\ admitted' = admitted + 1
              /\ pc' = [pc EXCEPT ![p] = "start_run"]
              /\ loc' = [loc EXCEPT ![p] =
                           [op |-> "start", name |-> req.body.experiment_name,
                            notes |-> req.body.notes,
                            startTimeUTC |-> ToISOString(clock)]]
              /\ response' = NoResponse
    /\ UNCHANGED <<experiment_sessions, gait_data, clock, created>>

\* The store applies the insert and the handler answers.
StartRun(p, faults) ==
    /\ pc[p] = "start_run"
    /\ \E reply \in InsertReplies(experiment_sessions, loc[p].name) \cup faults :
         /\ experiment_sessions' =
              D1InsertSession(experiment_sessions, SessionRow(loc[p]), reply)
         /\ response' = StartRespond(loc[p], reply)
         /\ created' = [created EXCEPT ![loc[p].name] =
                          IF response'.status = 201 THEN Min(@ + 1, 2) ELSE @]
    /\ pc' = [pc EXCEPT ![p] = "idle"]
    /\ loc' = [loc EXCEPT ![p] = NoLoc]
    /\ UNCHANGED <<gait_data, clock, admitted>>

\* =================================================================== end
EndBodies ==
    {[kind |-> "badjson", experiment_name |-> ""],
     [kind |-> "null", experiment_name |-> ""],
     [kind |-> "object", experiment_name |-> ""],
     [kind |-> "object", experiment_name |-> "exp1"],
     [kind |-> "object", experiment_name |-> "exp2"]}

\* before: the state of the named session when the store applied the update
\* (absent, open, closed; none when no update was applied), for the observer.
EndResponse(status, name, db) ==
    [op |-> "end", status |-> status, name |-> name, db |-> db, end_time |-> NULL,
     before |-> "none"]

SessionState(sessions, name) ==
    IF RowsFor(sessions, name) = {} THEN "absent"
    ELSE IF \E r \in RowsFor(sessions, name) : r.end_time = NULL THEN "open"
    ELSE "closed"

\* An update that also clears the notes of the row.
D1UpdateEndTimeClearsNotes(sessions, name, endTime) ==
    {IF r.experiment_name = name
     THEN [r EXCEPT !.end_time = Some(endTime), !.notes = NULL] ELSE r : r \in sessions}

\* An update that reopens a session already closed.
D1UpdateEndTimeToggle(sessions, name, endTime) ==
    {IF r.experiment_name = name
     THEN [r EXCEPT !.end_time = IF r.end_time = NULL THEN Some(endTime) ELSE NULL]
     ELSE r : r \in sessions}

\* An update that leaves closed sessions alone.
D1UpdateEndTimeOpenOnly(sessions, name, endTime) ==
    {IF r.experiment_name = name /\ r.end_time = NULL
     THEN [r EXCEPT !.end_time = Some(endTime)] ELSE r : r \in sessions}

\* UPDATE experiment_sessions SET end_time = ? WHERE experiment_name = ?
D1UpdateEndTime(sessions, name, endTime) ==
    {IF r.experiment_name = name THEN [r EXCEPT !.end_time = Some(endTime)] ELSE r :
       r \in sessions}

\* What the store may answer to the update: meta.changes counts the rows hit.
UpdateReplies(sessions, name) ==
    {OkReply(Cardinality(RowsFor(sessions, name)))}

\* A handler that does not look at meta.changes.
EndRespondIgnoresChanges(l, reply) ==
    IF reply.kind = "result" /\ reply.success
    THEN [EndResponse(200, l.name, DbOutcome(reply)) EXCEPT
            !.end_time = Some(l.endTimeUTC)]
    ELSE EndResponse(500, l.name, DbOutcome(reply))

\* The handler after the awaited run() of the update.
EndRespond(l, reply) ==
    IF reply.kind = "result"
    THEN IF reply.success
         THEN IF reply.changes > 0
              THEN [EndResponse(200, l.name, DbOutcome(reply)) EXCEPT
                      !.end_time = Some(l.endTimeUTC)]
              ELSE EndResponse(404, l.name, DbOutcome(reply))
         ELSE EndResponse(500, l.name, DbOutcome(reply))
    ELSE EndResponse(500, l.name, DbOutcome(reply))

EndRequests ==
    {[method |-> "GET", body |-> [kind |-> "badjson", experiment_name |-> ""]]}
    \cup [method : {"POST"}, body : EndBodies]

\* The checks before the store call; 0: the JSON null body faults outside
\* every try block.
EndPasses(req) ==
    req.method = "POST" /\ req.body.kind = "object" /\ req.body.experiment_name # ""
EndRejects(req) ==
    IF req.method # "POST" THEN 405
    ELSE IF req.body.kind = "badjson" THEN 400
    ELSE IF req.body.kind = "null" THEN 0
    ELSE 400

\* handleEndSession up to the awaited run(): method check, body parse, field
\* check, clock read.
EndRequest(p, requests) ==
    /\ Free(p)
    /\ \E req \in requests :
         IF ~EndPasses(req)
         THEN /\ response' = EndResponse(EndRejects(req), "", "none")
              /\ UNCHANGED <<pc, loc, admitted>>
         ELSE /\ CanAdmit
              /\ admitted' = admitted + 1
              /\ pc' = [pc EXCEPT ![p] = "end_run"]
              /\ loc' = [loc EXCEPT ![p] =
                           [op |-> "end", name |-> req.body.experiment_name,
                            endTimeUTC |-> ToISOString(clock)]]
              /\ response' = NoResponse
    /\ UNCHANGED <<experiment_sessions, gait_data, clock, created>>

\* The store applies the update and the handler answers.
EndRun(p, faults) ==
    /\ pc[p] = "end_run"
    /\ \E reply \in UpdateReplies(experiment_sessions, loc[p].name) \cup faults :
         /\ experiment_sessions' =
              IF reply.kind = "result" /\ reply.success
              THEN D1UpdateEndTime(experiment_sessions, loc[p].name, loc[p].endTimeUTC)
              ELSE experiment_sessions
         /\ response' = [EndRespond(loc[p], reply) EXCEPT
                            !.before = IF reply.kind = "result" /\ reply.success
                                       THEN SessionState(experiment_sessions, loc[p].name)
                                       ELSE "none"]
    /\ pc' = [pc EXCEPT ![p] = "idle"]
    /\ loc' = [loc EXCEPT ![p] = NoLoc]
    /\ UNCHANGED <<gait_data, clock, created, admitted>>

\* ================================================================ ingest
\* Device identifiers are texts too (ordered byte-wise by the store).
DevA == <<1>>
DevB == <<2>>

\* Sample lists: quaternion samples with components w, x, y, z.
Q1 == <<[w |-> 1, x |-> 0, y |-> 0, z |-> 0]>>
Q2 == <<[w |-> 0, x |-> 1, y |-> 0, z |-> 0], [w |-> 0, x |-> 0, y |-> -1, z |-> 0]>>

\* One element of seconds_data: a JSON object (timestamp of some type,
\* quaternions an array or not, note "" when absent) or JSON null.
Entry(tsType, ts, qType, q, note) ==
    [kind |-> "object", tsType |-> tsType, timestamp |-> ts,
     qType |-> qType, quaternions |-> q, note |-> note]
NullEntry ==
    [kind |-> "null", tsType |-> "undefined", timestamp |-> <<>>,
     qType |-> "undefined", quaternions |-> <<>>, note |-> ""]

GoodAt(t) == Entry("string", ToISOString(t), "array", IF t = 1 THEN Q2 ELSE Q1,
                   IF t = 1 THEN "n" ELSE "")
GoodEntries == {GoodAt(t) : t \in 0..MaxStamp}
SkippedEntries ==
    {Entry("number", <<>>, "array", Q1, ""),
     Entry("string", ToISOString(1), "array", <<>>, ""),
     Entry("string", ToISOString(1), "undefined", <<>>, "n")}
\* An entry whose only sample lacks the z component: the loop's check does
\* not look at the samples, so it passes.
Q3 == <<[w |-> 1, x |-> 0, y |-> 0]>>
UncheckedEntries == {Entry("string", ToISOString(0), "array", Q3, "")}
Entries == GoodEntries \cup SkippedEntries \cup UncheckedEntries \cup {NullEntry}

SeqsUpTo(S, n) == UNION {[1..k -> S] : k \in 0..n}

\* Request bodies: unparsable text, JSON null, or an object with device
\* (<<>> when absent or empty) and seconds_data (absent, not a list, a list).
IngestBodies ==
    {[kind |-> "badjson", device |-> <<>>, sdType |-> "undefined", seconds_data |-> <<>>],
     [kind |-> "null", device |-> <<>>, sdType |-> "undefined", seconds_data |-> <<>>]}
    \cup [kind : {"object"}, device : {DevA}, sdType : {"undefined", "object"},
          seconds_data : {<<>>}]
    \cup [kind : {"object"}, device : {<<>>}, sdType : {"array"},
          seconds_data : SeqsUpTo(GoodEntries, 1)]
    \cup [kind : {"object"}, device : {DevA}, sdType : {"array"},
          seconds_data : SeqsUpTo(Entries, MaxBatch)]
    \cup [kind : {"object"}, device : {DevB}, sdType : {"array"},
          seconds_data : SeqsUpTo(GoodEntries, MaxBatch)]

NumText(n) == CASE n = 0 -> "0" [] n = 1 -> "1" [] n = -1 -> "-1" [] OTHER -> "?"

\* JSON.stringify of a sample list, as its sequence of tokens.
SampleKeys == <<"w", "x", "y", "z">>
RECURSIVE JSONStringifyMembers(_, _)
JSONStringifyMembers(sample, keys) ==
    IF keys = <<>> THEN <<>>
    ELSE (IF Head(keys) \in DOMAIN sample
          THEN <<Head(keys), NumText(sample[Head(keys)])>> ELSE <<>>)
         \o JSONStringifyMembers(sample, Tail(keys))
RECURSIVE JSONStringifyItems(_)
JSONStringifyItems(q) ==
    IF q = <<>> THEN <<>>
    ELSE <<"{">> \o JSONStringifyMembers(Head(q), SampleKeys) \o <<"}">>
         \o JSONStringifyItems(Tail(q))
\* A serializer that keeps the first sample only.
JSONStringifyFirstOnly(q) == <<"[">> \o JSONStringifyItems(<<Head(q)>>) \o <<"]">>

JSONStringify(q) == <<"[">> \o JSONStringifyItems(q) \o <<"]">>

\* JSON.parse of that text, as the caller of the query applies it to the
\* quaternions field of a returned reading: each object's members are read
\* from the text, key by key.
JSONParseNumber(tok) == CASE tok = "0" -> 0 [] tok = "1" -> 1 [] tok = "-1" -> -1 [] OTHER -> 9
RECURSIVE JSONParseItems(_)
JSONParseItems(toks) ==
    IF Len(toks) < 10 THEN <<>>
    ELSE <<[k \in {toks[2], toks[4], toks[6], toks[8]} |->
              CASE k = toks[2] -> JSONParseNumber(toks[3])
                [] k = toks[4] -> JSONParseNumber(toks[5])
                [] k = toks[6] -> JSONParseNumber(toks[7])
                [] OTHER -> JSONParseNumber(toks[9])]>>
         \o JSONParseItems(SubSeq(toks, 11, Len(toks)))
JSONParse(text) == JSONParseItems(SubSeq(text, 2, Len(text) - 1))

\* The per-entry check of the loop: the entry is skipped when it fails.
EntryPasses(e) ==
    e.tsType = "string" /\ e.qType = "array" /\ Len(e.quaternions) # 0

\* A bind that passes the note on as it came (no "|| null").
ReadingRowNoteKept(device, e) ==
    [device |-> device, timestamp |-> e.timestamp,
     quaternions |-> JSONStringify(e.quaternions), note |-> Some(e.note)]

\* bind(device, timestamp, JSON text of the samples, note || null)
ReadingRow(device, e) ==
    [device |-> device, timestamp |-> e.timestamp,
     quaternions |-> JSONStringify(e.quaternions), note |-> OrNull(e.note)]

\* The statements the loop prepares, in entry order.
RECURSIVE Stmts(_, _)
Stmts(device, entries) ==
    IF entries = <<>> THEN <<>>
    ELSE IF EntryPasses(Head(entries))
         THEN <<ReadingRow(device, Head(entries))>> \o Stmts(device, Tail(entries))
         ELSE Stmts(device, Tail(entries))

\* Reading secondEntry.timestamp of a null entry raises a TypeError.
LoopFaults(entries) == \E i \in 1..Len(entries) : entries[i].kind = "null"

\* What the store may answer to a batch of n statements: one success flag per
\* statement, or an exception (nothing stored).
BatchReplies(n) ==
    [kind : {"results"}, success : [1..n -> BOOLEAN]]
    \cup {[kind |-> "throw", success |-> [i \in 1..n |-> FALSE]]}
BatchAccepted(n) == [kind |-> "results", success |-> [i \in 1..n |-> TRUE]]

\* A store that ignores a reading whose device and timestamp it already holds.
RECURSIVE StoredRowsIgnoreDuplicates(_, _)
StoredRowsIgnoreDuplicates(stmts, success) ==
    IF stmts = <<>> THEN <<>>
    ELSE (IF /\ success[1]
             /\ \A k \in 1..Len(gait_data) :
                   \/ gait_data[k].device # Head(stmts).device
                   \/ gait_data[k].timestamp # Head(stmts).timestamp
          THEN <<Head(stmts)>> ELSE <<>>)
         \o StoredRowsIgnoreDuplicates(Tail(stmts),
                                       [i \in 1..(Len(stmts) - 1) |-> success[i + 1]])

\* A store that takes readings only while no session is closed.
RECURSIVE StoredRowsOpenOnly(_, _)
StoredRowsOpenOnly(stmts, success) ==
    IF stmts = <<>> \/ (\E r \in experiment_sessions : r.end_time # NULL) THEN <<>>
    ELSE (IF success[1] THEN <<Head(stmts)>> ELSE <<>>)
         \o StoredRowsOpenOnly(Tail(stmts), [i \in 1..(Len(stmts) - 1) |-> success[i + 1]])

RECURSIVE StoredRows(_, _)
StoredRows(stmts, success) ==
    IF stmts = <<>> THEN <<>>
    ELSE (IF success[1] THEN <<Head(stmts)>> ELSE <<>>)
         \o StoredRows(Tail(stmts), [i \in 1..(Len(stmts) - 1) |-> success[i + 1]])

\* A store that keeps only the latest batch of each device.
D1BatchLatestOnly(rows, stmts, success) ==
    SelectSeq(rows, LAMBDA r : \A k \in 1..Len(stmts) : r.device # stmts[k].device)
    \o StoredRows(stmts, success)

\* env.DB.batch(statements): each accepted INSERT appends its row.
D1Batch(rows, stmts, success) == rows \o StoredRows(stmts, success)

CountTrue(success) == Cardinality({i \in DOMAIN success : success[i]})

\* The answer, with the request body it answers (body) and the handler's
\* counters: entries received, skipped by the loop, statements submitted.
IngestResponse(status, db, body) ==
    [op |-> "ingest", status |-> status, db |-> db, body |-> body,
     entries |-> Len(body.seconds_data), skipped |-> 0,
     submitted |-> 0, stored |-> 0, errors |-> <<>>]

\* A handler that answers 500 when every write failed.
IngestRespondAllFailedIsError(body, stmts, reply) ==
    IF reply.kind = "throw"
    THEN [IngestResponse(500, "throw", body) EXCEPT
            !.skipped = Len(body.seconds_data) - Len(stmts),
            !.submitted = Len(stmts)]
    ELSE LET successfulInserts == CountTrue(reply.success)
             errors == [i \in 1..(Len(stmts) - successfulInserts) |-> OtherMsg]
             allSuccess == \A i \in 1..Len(stmts) : reply.success[i]
         IN  [IngestResponse(IF allSuccess THEN 201
                             ELSE IF successfulInserts = 0 THEN 500 ELSE 207,
                             IF allSuccess THEN "ok" ELSE "error", body) EXCEPT
                !.skipped = Len(body.seconds_data) - Len(stmts),
                !.submitted = Len(stmts),
                !.stored = successfulInserts,
                !.errors = errors]

\* A handler that reports full success as soon as one write succeeded.
IngestRespondAnySuccess(body, stmts, reply) ==
    IF reply.kind = "throw"
    THEN [IngestResponse(500, "throw", body) EXCEPT
            !.skipped = Len(body.seconds_data) - Len(stmts),
            !.submitted = Len(stmts)]
    ELSE [IngestResponse(IF CountTrue(reply.success) > 0 THEN 201 ELSE 207,
                         IF CountTrue(reply.success) > 0 THEN "ok" ELSE "error",
                         body) EXCEPT
            !.skipped = Len(body.seconds_data) - Len(stmts),
            !.submitted = Len(stmts),
            !.stored = CountTrue(reply.success)]

\* The handler after the awaited batch(): count successes, collect errors.
IngestRespond(body, stmts, reply) ==
    IF reply.kind = "throw"
    THEN [IngestResponse(500, "throw", body) EXCEPT
            !.skipped = Len(body.seconds_data) - Len(stmts),
            !.submitted = Len(stmts)]
    ELSE LET successfulInserts == CountTrue(reply.success)
             errors == [i \in 1..(Len(stmts) - successfulInserts) |-> OtherMsg]
             allSuccess == \A i \in 1..Len(stmts) : reply.success[i]
         IN  [IngestResponse(IF allSuccess THEN 201 ELSE 207,
                             IF allSuccess THEN "ok" ELSE "error", body) EXCEPT
                !.skipped = Len(body.seconds_data) - Len(stmts),
                !.submitted = Len(stmts),
                !.stored = successfulInserts,
                !.errors = errors]

IngestRequests ==
    {[method |-> "GET", body |-> [kind |-> "badjson", device |-> <<>>,
                                  sdType |-> "undefined", seconds_data |-> <<>>]]}
    \cup [method : {"POST"}, body : IngestBodies]

\* A handler that takes readings only while some session is open.
IngestPassesOpenSession(req) ==
    /\ req.method = "POST" /\ req.body.kind = "object"
    /\ req.body.device # <<>> /\ req.body.sdType = "array"
    /\ req.body.seconds_data # <<>>
    /\ ~LoopFaults(req.body.seconds_data)
    /\ Len(Stmts(req.body.device, req.body.seconds_data)) # 0
    /\ \E r \in experiment_sessions : r.end_time = NULL

\* The checks before the store call: 405 wrong method, 400 unparsable body
\* (SyntaxError), 500 a TypeError caught by the handler (JSON null body, null
\* entry), 400 missing device or entry list, 400 every entry skipped.
IngestPasses(req) ==
    /\ req.method = "POST" /\ req.body.kind = "object"
    /\ req.body.device # <<>> /\ req.body.sdType = "array"
    /\ req.body.seconds_data # <<>>
    /\ ~LoopFaults(req.body.seconds_data)
    /\ Len(Stmts(req.body.device, req.body.seconds_data)) # 0
IngestRejects(req) ==
    IF req.method # "POST" THEN 405
    ELSE IF req.body.kind = "badjson" THEN 400
    ELSE IF req.body.kind = "null" THEN 500
    ELSE IF req.body.device = <<>> \/ req.body.sdType # "array"
            \/ req.body.seconds_data = <<>> THEN 400
    ELSE IF LoopFaults(req.body.seconds_data) THEN 500
    ELSE 400

\* handleIngestRequest: method check, body parse, batch check, the per-entry
\* loop, then the one store call (the batch) and the answer.  Everything
\* before the store call is local to the request, so the handler is one step.
IngestRequest(p, requests, faulty) ==
    /\ Free(p)
    /\ \E req \in requests :
         IF ~IngestPasses(req)
         THEN /\ response' = IngestResponse(IngestRejects(req), "none", req.body)
              /\ UNCHANGED <<gait_data, admitted>>
         ELSE LET stmts == Stmts(req.body.device, req.body.seconds_data) IN
              /\ CanAdmit
              /\ admitted' = admitted + 1
              /\ \E reply \in (IF faulty THEN BatchReplies(Len(stmts))
                                          ELSE {BatchAccepted(Len(stmts))}) :
                   /\ Len(gait_data) + CountTrue(reply.success) <= MaxRows
                   /\ gait_data' = D1Batch(gait_data, stmts, reply.success)
                   /\ response' = IngestRespond(req.body, stmts, reply)
    /\ UNCHANGED <<experiment_sessions, clock, pc, loc, created>>

\* ================================================================= query
QueryNames == Names \cup {""}     \* the URL's name parameter, "" when absent

QueryResponse(status, name, db) ==
    [op |-> "query", status |-> status, name |-> name, db |-> db,
     start_time |-> NULL, end_time |-> NULL, session_notes |-> NULL,
     data_count |-> 0, gait_data_records |-> <<>>]

\* A window that leaves out the readings stamped exactly end_time.
InWindowStrictEnd(r, startTime, endTime) ==
    StrLeq(startTime, r.timestamp) /\ StrLess(r.timestamp, endTime)

\* WHERE timestamp >= ? AND timestamp <= ?
InWindow(r, startTime, endTime) ==
    StrLeq(startTime, r.timestamp) /\ StrLeq(r.timestamp, endTime)

\* ORDER BY timestamp, device ASC
RowLeq(a, b) ==
    \/ StrLess(a.timestamp, b.timestamp)
    \/ a.timestamp = b.timestamp /\ StrLeq(a.device, b.device)

\* A range query without its upper bound (WHERE timestamp >= ?).
D1SelectReadingsFromStart(rows, startTime, endTime) ==
    LET hit == {i \in 1..Len(rows) : StrLeq(startTime, rows[i].timestamp)}
        n == Cardinality(hit)
    IN  {[k \in 1..n |-> rows[f[k]]] :
           f \in {g \in [1..n -> hit] :
                    /\ \A i, j \in 1..n : i # j => g[i] # g[j]
                    /\ \A i, j \in 1..n : i < j => RowLeq(rows[g[i]], rows[g[j]])}}

\* SELECT ... FROM gait_data WHERE timestamp >= ? AND timestamp <= ?
\* ORDER BY timestamp, device ASC: every listing of the matching rows that
\* respects the order (rows equal in both keys come in any order).
D1SelectReadings(rows, startTime, endTime) ==
    LET hit == {i \in 1..Len(rows) : InWindow(rows[i], startTime, endTime)}
        n == Cardinality(hit)
    IN  {[k \in 1..n |-> rows[f[k]]] :
           f \in {g \in [1..n -> hit] :
                    /\ \A i, j \in 1..n : i # j => g[i] # g[j]
                    /\ \A i, j \in 1..n : i < j => RowLeq(rows[g[i]], rows[g[j]])}}

\* A handler without the not-found check: reading sessionInfo.start_time of a
\* missing row faults and the catch block answers 500.
QuerySessionFoundNoNotFound(name, found) ==
    IF found = {} THEN QueryResponse(500, name, "ok")
    ELSE LET sessionInfo == CHOOSE r \in found : TRUE IN
         IF sessionInfo.end_time = NULL
         THEN [QueryResponse(202, name, "ok") EXCEPT
                 !.start_time = Some(sessionInfo.start_time),
                 !.session_notes = sessionInfo.notes]
         ELSE QueryResponse(0, name, "ok")

\* A handler that answers an open session like a closed one without readings.
QuerySessionFoundOpenAsDone(name, found) ==
    IF found = {} THEN QueryResponse(404, name, "ok")
    ELSE LET sessionInfo == CHOOSE r \in found : TRUE IN
         IF sessionInfo.end_time = NULL
         THEN [QueryResponse(200, name, "ok") EXCEPT
                 !.start_time = Some(sessionInfo.start_time),
                 !.session_notes = sessionInfo.notes]
         ELSE QueryResponse(0, name, "ok")

\* The handler after the awaited first() of the session lookup.
QuerySessionFound(name, found) ==
    IF found = {} THEN QueryResponse(404, name, "ok")
    ELSE LET sessionInfo == CHOOSE r \in found : TRUE IN
         IF sessionInfo.end_time = NULL
         THEN [QueryResponse(202, name, "ok") EXCEPT
                 !.start_time = Some(sessionInfo.start_time),
                 !.session_notes = sessionInfo.notes]
         ELSE QueryResponse(0, name, "ok")   \* no answer yet: go on to the range query

\* A handler that leaves end_time out of the 200 response.
QueryRespondNoEndTime(l, records) ==
    [QueryResponse(200, l.name, "ok") EXCEPT
       !.start_time = Some(l.start_time),
       !.session_notes = l.notes,
       !.data_count = Len(records),
       !.gait_data_records = records]

\* The handler after the awaited all() of the range query.
QueryRespond(l, records) ==
    [QueryResponse(200, l.name, "ok") EXCEPT
       !.start_time = Some(l.start_time),
       !.end_time = Some(l.end_time),
       !.session_notes = l.notes,
       !.data_count = Len(records),
       !.gait_data_records = records]

\* handleQueryDataByExperimentName up to and including the session lookup
\* (the parameter check is local to the request).
QuerySession(p, names) ==
    /\ Free(p)
    /\ \E name \in names :
         IF name = ""
         THEN /\ response' = QueryResponse(400, "", "none")
              /\ UNCHANGED <<pc, loc, admitted>>
         ELSE /\ CanAdmit
              /\ admitted' = admitted + 1
              /\ \E fault \in BOOLEAN :
                   IF fault
                   THEN /\ response' = QueryResponse(500, name, "throw")
                        /\ UNCHANGED <<pc, loc>>
                   ELSE LET found == RowsFor(experiment_sessions, name)
                            answer == QuerySessionFound(name, found)
                        IN  IF answer.status # 0
                            THEN /\ response' = answer
                                 /\ UNCHANGED <<pc, loc>>
                            ELSE \E sessionInfo \in found :
                                   /\ pc' = [pc EXCEPT ![p] = "query_all"]
                                   /\ loc' = [loc EXCEPT ![p] =
                                                [op |-> "query", name |-> name,
                                                 start_time |-> sessionInfo.start_time,
                                                 end_time |-> sessionInfo.end_time[1],
                                                 notes |-> sessionInfo.notes]]
                                   /\ response' = NoResponse
    /\ UNCHANGED <<experiment_sessions, gait_data, clock, created>>

\* The store answers the range query and the handler assembles the response.
QueryAll(p) ==
    /\ pc[p] = "query_all"
    /\ \E fault \in BOOLEAN :
         IF fault
         THEN response' = QueryResponse(500, loc[p].name, "throw")
         ELSE \E records \in D1SelectReadings(gait_data, loc[p].start_time, loc[p].end_time) :
                response' = QueryRespond(loc[p], records)
    /\ pc' = [pc EXCEPT ![p] = "idle"]
    /\ loc' = [loc EXCEPT ![p] = NoLoc]
    /\ UNCHANGED <<experiment_sessions, gait_data, clock, created, admitted>>

\* ================================================================== list
ListResponse(status, db) ==
    [op |-> "list", status |-> status, db |-> db, sessions |-> <<>>]

\* A listing that leaves out the sessions already closed.
D1SelectSessionsOpenOnly(sessions) ==
    LET open == {r \in sessions : r.end_time = NULL}
        n == Cardinality(open)
    IN  {f \in [1..n -> open] :
           /\ \A i, j \in 1..n : i # j => f[i] # f[j]
           /\ \A i, j \in 1..n : i < j => StrLeq(f[j].start_time, f[i].start_time)}

\* SELECT experiment_name, start_time, end_time, notes FROM experiment_sessions
\* ORDER BY start_time DESC: every listing of all rows that respects the
\* order (rows with equal start_time come in any order).
D1SelectSessions(sessions) ==
    LET n == Cardinality(sessions)
    IN  {f \in [1..n -> sessions] :
           /\ \A i, j \in 1..n : i # j => f[i] # f[j]
           /\ \A i, j \in 1..n : i < j => StrLeq(f[j].start_time, f[i].start_time)}

\* handleListSessions: one store call, then the answer (500 when it throws).
ListSessions(p) ==
    /\ Free(p)
    /\ CanAdmit
    /\ admitted' = admitted + 1
    /\ \E fault \in BOOLEAN :
         IF fault
         THEN response' = ListResponse(500, "throw")
         ELSE \E results \in D1SelectSessions(experiment_sessions) :
                response' = [ListResponse(200, "ok") EXCEPT !.sessions = results]
    /\ UNCHANGED <<experiment_sessions, gait_data, clock, pc, loc, created>>

\* ================================================================= clock
Tick ==
    /\ clock < MaxClock
    /\ clock' = clock + 1
    /\ UNCHANGED <<experiment_sessions, gait_data, pc, loc, response, created, admitted>>

\* ========================================================= specification
\* The store outlives the worker: the registry starts empty, the reading
\* store empty or holding a reading device B sent earlier.
InitReadings ==
    {<<>>, <<ReadingRow(DevB, GoodAt(1))>>}

Init ==
    /\ experiment_sessions = {}
    /\ gait_data \in InitReadings
    /\ clock = 0
    /\ pc = [p \in Procs |-> "idle"]
    /\ loc = [p \in Procs |-> NoLoc]
    /\ response = NoResponse
    /\ created = [n \in Names |-> 0]
    /\ admitted = 0

\* The whole system: every request passes validation (but a query may lack
\* its name), batches have one entry, and only the queries meet store faults.
LeanIngestRequests ==
    {r \in IngestRequests : r.method = "POST" /\ r.body.kind = "object"
                            /\ Len(r.body.seconds_data) = 1
                            /\ r.body.device # <<>>
                            /\ r.body.seconds_data[1] \notin UncheckedEntries
                            /\ (r.body.device = DevB => IngestPasses(r))}

Next ==
    \/ \E p \in Procs : StartRequest(p, {r \in StartRequests : StartPasses(r)})
    \/ \E p \in Procs : StartRun(p, {})
    \/ \E p \in Procs : EndRequest(p, {r \in EndRequests : EndPasses(r)})
    \/ \E p \in Procs : EndRun(p, {})
    \/ \E p \in Procs : IngestRequest(p, LeanIngestRequests, FALSE)
    \/ \E p \in Procs : QuerySession(p, QueryNames)
    \/ \E p \in Procs : QueryAll(p)
    \/ \E p \in Procs : ListSessions(p)
    \/ Tick

Spec == Init /\ [][Next]_vars

\* Ingestion alone: every request, every batch of up to MaxBatch entries,
\* every reply of the store.
NextIngest ==
    \/ \E p \in Procs : IngestRequest(p, IngestRequests, TRUE)

SpecIngest == Init /\ [][NextIngest]_vars

\* The session registry alone: every request, every reply of the store.
NextSession ==
    \/ \E p \in Procs : StartRequest(p, StartRequests)
    \/ \E p \in Procs : StartRun(p, FaultReplies)
    \/ \E p \in Procs : EndRequest(p, EndRequests)
    \/ \E p \in Procs : EndRun(p, FaultReplies)
    \/ Tick

SpecSession == Init /\ [][NextSession]_vars

\* One client calling start, ingest, end and query in that order, each call
\* made after the one before it has returned, while the clock runs.
AllIdle == \A p \in Procs : pc[p] = "idle"

NextScenario ==
    \/ \E p \in Procs : /\ admitted = 0
                        /\ StartRequest(p, {r \in StartRequests : StartPasses(r)})
    \/ \E p \in Procs : StartRun(p, {})
    \/ \E p \in Procs : /\ admitted = 1 /\ AllIdle
                        /\ IngestRequest(p, LeanIngestRequests, FALSE)
    \/ \E p \in Procs : /\ admitted = 2 /\ AllIdle
                        /\ EndRequest(p, {r \in EndRequests : EndPasses(r)})
    \/ \E p \in Procs : EndRun(p, {})
    \/ \E p \in Procs : /\ admitted = 3 /\ AllIdle
                        /\ QuerySession(p, Names)
    \/ \E p \in Procs : QueryAll(p)
    \/ Tick

SpecScenario == Init /\ [][NextScenario]_vars

\* One client that starts and ends a session and only then, each call made
\* after the one before it has returned, sends readings and queries.
NextLateIngest ==
    \/ \E p \in Procs : /\ admitted = 0
                        /\ StartRequest(p, {r \in StartRequests : StartPasses(r)})
    \/ \E p \in Procs : StartRun(p, {})
    \/ \E p \in Procs : /\ admitted = 1 /\ AllIdle
                        /\ EndRequest(p, {r \in EndRequests : EndPasses(r)})
    \/ \E p \in Procs : EndRun(p, {})
    \/ \E p \in Procs : /\ admitted >= 2 /\ AllIdle
                        /\ IngestRequest(p, LeanIngestRequests, FALSE)
    \/ \E p \in Procs : /\ admitted >= 2 /\ AllIdle
                        /\ QuerySession(p, Names)
    \/ \E p \in Procs : QueryAll(p)
    \/ Tick

SpecLateIngest == Init /\ [][NextLateIngest]_vars

\* Sessions started and ended while one-entry batches arrive, the store
\* answering the batch with success, a failed write or an exception; all
\* within one reading of the clock.
NextSessionIngest ==
    \/ \E p \in Procs : StartRequest(p, {r \in StartRequests : StartPasses(r)})
    \/ \E p \in Procs : StartRun(p, {})
    \/ \E p \in Procs : EndRequest(p, {r \in EndRequests : EndPasses(r)})
    \/ \E p \in Procs : EndRun(p, {})
    \/ \E p \in Procs : IngestRequest(p, LeanIngestRequests, TRUE)

SpecSessionIngest == Init /\ [][NextSessionIngest]_vars

\* ================================================================ router
ALLOWED_ORIGINS == {"http://localhost:5173", "https://gait-ui.pages.dev"}

\* request.headers.get('Origin'): "" when the header is absent.
Origins ==
    ALLOWED_ORIGINS \cup {"", "https://evil.example", "http://localhost:5174"}
Methods == {"GET", "POST", "OPTIONS"}
Paths == {"/api/ingest", "/api/session/start", "/api/session/end",
          "/api/sessions", "/api/data/experiment", "/api/other"}
FetchRequests == [method : Methods, path : Paths, origin : Origins]

\* Headers are a set of <<name, value>> pairs; set(name, value) replaces.
SetHeader(headers, name, value) ==
    {h \in headers : h[1] # name} \cup {<<name, value>>}

JsonHeaders == {<<"Content-Type", "application/json">>}

\* The Response a routed handler returns: its status and headers (the ingest
\* handler sets no header).  Status 0 with handled FALSE stands for a handler
\* that raised instead of returning.
HandlerResponse(status, headers) ==
    [handled |-> status # 0, status |-> status, headers |-> headers]
HandlerResponses(request) ==
    IF request.method = "POST" /\ request.path = "/api/ingest"
    THEN {HandlerResponse(st, {}) : st \in {201, 207, 400, 500}}
    ELSE IF request.method = "POST" /\ request.path = "/api/session/start"
    THEN {HandlerResponse(st, JsonHeaders) : st \in {201, 400, 409, 500}}
         \cup {HandlerResponse(0, {})}
    ELSE IF request.method = "POST" /\ request.path = "/api/session/end"
    THEN {HandlerResponse(st, JsonHeaders) : st \in {200, 400, 404, 500}}
         \cup {HandlerResponse(0, {})}
    ELSE IF request.method = "GET" /\ request.path = "/api/sessions"
    THEN {HandlerResponse(st, JsonHeaders) : st \in {200, 500}}
    ELSE IF request.method = "GET" /\ request.path = "/api/data/experiment"
    THEN {HandlerResponse(st, JsonHeaders) : st \in {200, 202, 400, 404, 500}}
    ELSE {HandlerResponse(404, JsonHeaders)}

\* A wrapper that allows every origin (the line the source keeps commented out).
addCorsHeadersWildcard(original, requestOrigin) ==
    [original EXCEPT !.headers =
        SetHeader(SetHeader(SetHeader(original.headers,
                                      "Access-Control-Allow-Origin", "*"),
                            "Access-Control-Allow-Methods",
                            "GET, POST, PUT, DELETE, OPTIONS"),
                  "Access-Control-Allow-Headers",
                  "Content-Type, Authorization, X-API-Key")]

\* addCorsHeaders(response, requestOrigin): a copy of the response with the
\* same status and the CORS headers set on a copy of its headers.
addCorsHeaders(original, requestOrigin) ==
    LET allowOrigin == IF requestOrigin # "" /\ requestOrigin \in ALLOWED_ORIGINS
                       THEN requestOrigin ELSE ""
        withOrigin == IF allowOrigin # ""
                      THEN SetHeader(original.headers,
                                     "Access-Control-Allow-Origin", allowOrigin)
                      ELSE original.headers
    IN  [original EXCEPT !.headers =
            SetHeader(SetHeader(withOrigin, "Access-Control-Allow-Methods",
                                "GET, POST, PUT, DELETE, OPTIONS"),
                      "Access-Control-Allow-Headers",
                      "Content-Type, Authorization, X-API-Key")]

\* The answer to an OPTIONS request: new Response(null, {headers}), status 200.
Preflight(requestOrigin) ==
    LET allowOrigin == IF requestOrigin # "" /\ requestOrigin \in ALLOWED_ORIGINS
                       THEN requestOrigin ELSE ""
    IN  [handled |-> TRUE, status |-> 200,
         headers |->
            (IF allowOrigin # ""
             THEN {<<"Access-Control-Allow-Origin", allowOrigin>>} ELSE {})
            \cup {<<"Access-Control-Allow-Methods", "GET, POST, PUT, DELETE, OPTIONS">>,
                  <<"Access-Control-Allow-Headers",
                    "Content-Type, Authorization, X-API-Key">>,
                  <<"Access-Control-Max-Age", "86400">>}]

\* fetch(request): the preflight answer, or the routed handler's response
\* wrapped by addCorsHeaders; a handler that raised leaves no response.
fetch(request, original) ==
    IF request.method = "OPTIONS" THEN Preflight(request.origin)
    ELSE IF ~original.handled THEN original
    ELSE addCorsHeaders(original, request.origin)

\* One request through the router; the response is kept with the request it
\* answers and the response the handler returned.
FetchRequest ==
    /\ \E request \in FetchRequests :
         \E original \in HandlerResponses(request) :
            LET sent == fetch(request, original) IN
            response' = [op |-> "fetch", status |-> sent.status,
                         handled |-> sent.handled, headers |-> sent.headers,
                         request |-> request, original |-> original]
    /\ UNCHANGED <<experiment_sessions, gait_data, clock, pc, loc, created, admitted>>

NextCors ==
    \/ FetchRequest

SpecCors == Init /\ [][NextCors]_vars

\* ================================================================ claims
\* C1: of the start requests racing for one experiment name, exactly one is
\* answered 201 and every other one the store took is answered 409, and the
\* registry holds at most one row for the name: a row exists exactly when one
\* 201 was given, the store's acceptance is answered 201 and its uniqueness
\* rejection (as failed result or as exception) is answered 409.
C1_OneStartWins ==
    \A n \in Names :
        /\ Cardinality(RowsFor(experiment_sessions, n)) <= 1
        /\ created[n] <= 1
        /\ (RowsFor(experiment_sessions, n) # {}) <=> (created[n] = 1)
        /\ (response.op = "start" /\ response.name = n /\ response.db = "ok")
              => response.status = 201
        /\ (response.op = "start" /\ response.name = n /\ response.db = "unique")
              => (response.status = 409 /\ created[n] = 1)
        /\ (response.op = "start" /\ response.name = n /\ response.status = 409)
              => response.db = "unique"

\* A start of exp1 is answered 409 while another start of exp1 is in flight
\* and one earlier start of exp1 was answered 201.
C1_Witness ==
    /\ response.op = "start" /\ response.name = "exp1" /\ response.status = 409
    /\ created["exp1"] = 1
    /\ \E p \in Procs : pc[p] = "start_run" /\ loc[p].name = "exp1"

\* C5: an end the store applied to an existing session (open or already
\* closed) is answered 200, the stored end_time then equals the end_time of the
\* response and the session is closed; on a closed session that overwrites the
\* end_time stored before.
C5_EndClosesAndOverwrites ==
    (response.op = "end" /\ response.before \in {"open", "closed"})
        => /\ response.status = 200
           /\ response.end_time # NULL
           /\ RowsFor(experiment_sessions, response.name) # {}
           /\ \A r \in RowsFor(experiment_sessions, response.name) :
                  r.end_time = response.end_time

\* A second end on a closed session was answered 200 with a later end_time
\* than the session's start_time, and that end_time is the one stored.
C5_Witness ==
    /\ response.op = "end" /\ response.before = "closed" /\ response.status = 200
    /\ \E r \in experiment_sessions :
          /\ r.experiment_name = response.name
          /\ r.end_time = response.end_time
          /\ r.end_time # Some(r.start_time)

\* An entry the per-entry validation is to reject: not an object, a timestamp
\* that is no text, or samples that are no non-empty list.
MalformedEntry(e) ==
    e.kind # "object" \/ e.tsType # "string" \/ e.qType # "array" \/ e.quaternions = <<>>
MalformedCount(body) ==
    Cardinality({i \in 1..Len(body.seconds_data) : MalformedEntry(body.seconds_data[i])})
RowsAdded == Len(gait_data') - Len(gait_data)

\* C4: a batch of N entries of which K (0 < K < N) are malformed, every
\* submitted write accepted by the store, is answered PartialFailure (207)
\* with K failure details and N - K rows stored.
C4_PartialFailureReported ==
    (/\ response.op = "ingest" /\ response.db = "ok"
     /\ 0 < MalformedCount(response.body)
     /\ MalformedCount(response.body) < Len(response.body.seconds_data))
        => /\ response.status = 207
           /\ Len(response.errors) = MalformedCount(response.body)
           /\ response.stored =
                Len(response.body.seconds_data) - MalformedCount(response.body)

\* C8: a non-empty batch whose entries are all malformed is answered 400 and
\* no write is submitted.
C8_AllInvalidRejected ==
    (/\ response.op = "ingest" /\ response.body.kind = "object"
     /\ response.body.device # <<>> /\ response.body.sdType = "array"
     /\ Len(response.body.seconds_data) > 0
     /\ MalformedCount(response.body) = Len(response.body.seconds_data))
        => (response.status = 400 /\ response.submitted = 0)

\* C9: an ingestion whose submitted writes (the N - K well-formed entries)
\* all succeed is answered 201 with a stored count equal to the rows added to
\* the reading store; with K = 0 the count is N and the rows added are, in
\* entry order, (device, entry timestamp, serialized samples, note or null).
C9_AllWritesStored ==
    [][(/\ admitted' # admitted
        /\ RowsAdded = Len(response'.body.seconds_data) - MalformedCount(response'.body))
          => /\ response'.op = "ingest" /\ response'.status = 201
             /\ response'.stored = RowsAdded
             /\ SubSeq(gait_data', 1, Len(gait_data)) = gait_data
             /\ MalformedCount(response'.body) = 0 =>
                  /\ response'.stored = Len(response'.body.seconds_data)
                  /\ \A i \in 1..Len(response'.body.seconds_data) :
                       LET e == response'.body.seconds_data[i] IN
                       gait_data'[Len(gait_data) + i] =
                         [device |-> response'.body.device,
                          timestamp |-> e.timestamp,
                          quaternions |-> JSONStringify(e.quaternions),
                          note |-> IF e.note = "" THEN NULL ELSE Some(e.note)]]_vars

\* A batch of two well-formed entries, the first without a note, was answered
\* 201 and both rows are in the store in entry order.
C9_Witness ==
    /\ response.op = "ingest" /\ response.status = 201
    /\ response.stored = 2 /\ response.skipped = 0
    /\ Len(gait_data) = 2
    /\ gait_data[1].timestamp = response.body.seconds_data[1].timestamp
    /\ gait_data[1].note = NULL
    /\ gait_data[2].note # NULL

\* C10: an ingestion of which at least one submitted write failed and at
\* least one succeeded is answered 207 with the count of successes and one
\* failure detail per failed write: successes plus failure details equal the
\* writes submitted.
C10_MixedOutcomeReported ==
    [][LET submitted == Len(response'.body.seconds_data) - MalformedCount(response'.body)
       IN  (admitted' # admitted /\ 0 < RowsAdded /\ RowsAdded < submitted)
             => /\ response'.op = "ingest" /\ response'.status = 207
                /\ response'.stored = RowsAdded
                /\ Len(response'.errors) = submitted - RowsAdded
                /\ response'.stored + Len(response'.errors) = response'.submitted
                /\ response'.submitted = submitted]_vars

\* A batch of two writes, one stored and one failed, was answered 207.
C10_Witness ==
    /\ response.op = "ingest" /\ response.status = 207
    /\ response.submitted = 2 /\ response.stored = 1 /\ Len(response.errors) = 1
    /\ Len(gait_data) >= 1

\* C2: a query answered 200 (the session was closed) returns exactly the
\* stored readings with start_time <= timestamp <= end_time, both bounds
\* inclusive, for the window the response reports, ordered by timestamp and
\* then device ascending, with data_count their number; no reading in the
\* window is still 200.
C2_WindowQuery ==
    (response.op = "query" /\ response.status = 200)
        => LET startTime == response.start_time[1]
               endTime == response.end_time[1]
               records == response.gait_data_records
               hit == {i \in 1..Len(gait_data) :
                         /\ StrLeq(startTime, gait_data[i].timestamp)
                         /\ StrLeq(gait_data[i].timestamp, endTime)}
           IN  /\ \E r \in RowsFor(experiment_sessions, response.name) :
                     r.start_time = startTime /\ r.end_time # NULL
               /\ response.data_count = Len(records)
               /\ Len(records) = Cardinality(hit)
               /\ \E f \in [1..Len(records) -> hit] :
                     /\ \A i, j \in 1..Len(records) : i # j => f[i] # f[j]
                     /\ \A i \in 1..Len(records) : records[i] = gait_data[f[i]]
               /\ \A i, j \in 1..Len(records) :
                     i < j => \/ /\ StrLeq(records[i].timestamp, records[j].timestamp)
                                 /\ records[i].timestamp # records[j].timestamp
                              \/ /\ records[i].timestamp = records[j].timestamp
                                 /\ StrLeq(records[i].device, records[j].device)

\* Two readings stamped exactly end_time, stored device B first, come back
\* device A first.
C2_Witness ==
    /\ response.op = "query" /\ response.status = 200
    /\ response.data_count = 2
    /\ response.gait_data_records[1].device = DevA
    /\ response.gait_data_records[2].device = DevB
    /\ response.gait_data_records[1].timestamp = response.end_time[1]
    /\ response.gait_data_records[2].timestamp = response.end_time[1]
    /\ gait_data[1].device = DevB

\* C3: the lookup of a session whose stored end_time is null is answered 202
\* with the session's start_time, end_time null, data_count 0 and an empty
\* reading list, however many readings are stored, and no request is waiting
\* for a range query on behalf of an open session.
C3_OpenSessionPending ==
    /\ \A r \in experiment_sessions :
          (/\ r.end_time = NULL
           /\ response.op = "query" /\ response.db = "ok"
           /\ response.name = r.experiment_name)
             => /\ response.status = 202
                /\ response.start_time = Some(r.start_time)
                /\ response.end_time = NULL
                /\ response.data_count = 0
                /\ response.gait_data_records = <<>>
    /\ \A p \in Procs : pc[p] = "query_all" =>
          /\ RowsFor(experiment_sessions, loc[p].name) # {}
          /\ \A r \in RowsFor(experiment_sessions, loc[p].name) : r.end_time # NULL

\* An open session is answered 202 with no reading although a reading stamped
\* at or after its start_time is stored.
C3_Witness ==
    /\ response.op = "query" /\ response.status = 202
    /\ response.data_count = 0
    /\ \E i \in 1..Len(gait_data) :
          StrLeq(response.start_time[1], gait_data[i].timestamp)

\* C6: an end the store applies to a name without a session is answered 404
\* and leaves the registry and the reading store as they were.
C6_EndAbsentNotFound ==
    [][\A p \in Procs :
          (/\ pc[p] = "end_run" /\ pc'[p] = "idle"
           /\ RowsFor(experiment_sessions, loc[p].name) = {}
           /\ response'.db = "ok")
             => /\ response'.op = "end" /\ response'.status = 404
                /\ response'.name = loc[p].name
                /\ experiment_sessions' = experiment_sessions
                /\ gait_data' = gait_data]_vars

\* An end of a name without a session was answered 404 while another session
\* and a reading are stored.
C6_Witness ==
    /\ response.op = "end" /\ response.status = 404 /\ response.before = "absent"
    /\ RowsFor(experiment_sessions, response.name) = {}
    /\ experiment_sessions # {}
    /\ gait_data # <<>>

\* C7: the lookup of a name without a session is answered 404 naming that
\* session, with no reading, and no request is waiting for a range query on
\* behalf of a name without a session.
C7_QueryUnknownNotFound ==
    /\ (/\ response.op = "query" /\ response.db = "ok"
        /\ RowsFor(experiment_sessions, response.name) = {})
          => /\ response.status = 404
             /\ response.name \in Names
             /\ response.data_count = 0
             /\ response.gait_data_records = <<>>
    /\ \A p \in Procs : pc[p] = "query_all" => loc[p].name \in
          {r.experiment_name : r \in experiment_sessions}

\* A query of a name without a session was answered 404 while readings and
\* another session are stored.
C7_Witness ==
    /\ response.op = "query" /\ response.status = 404
    /\ RowsFor(experiment_sessions, response.name) = {}
    /\ experiment_sessions # {}
    /\ gait_data # <<>>

\* C11: no step of start, end, ingest, list or query changes the start_time
\* or the notes of a stored session, and a start the store applies to a name
\* that already has a session is answered 409 and leaves the registry as it
\* was.
C11_StartTimeImmutable ==
    [][/\ \A r \in experiment_sessions :
             /\ RowsFor(experiment_sessions', r.experiment_name) # {}
             /\ \A r2 \in RowsFor(experiment_sessions', r.experiment_name) :
                   r2.start_time = r.start_time /\ r2.notes = r.notes
       /\ \A p \in Procs :
             (/\ pc[p] = "start_run" /\ pc'[p] = "idle"
              /\ RowsFor(experiment_sessions, loc[p].name) # {})
                => /\ response'.op = "start" /\ response'.status = 409
                   /\ experiment_sessions' = experiment_sessions]_vars

\* A duplicate start of exp1 was answered 409 after the clock moved on and
\* the session was ended: the row still has the first start_time and notes.
C11_Witness ==
    /\ response.op = "start" /\ response.status = 409 /\ response.name = "exp1"
    /\ clock = 2
    /\ \E r \in experiment_sessions :
          /\ r.experiment_name = "exp1"
          /\ r.start_time = ToISOString(0)
          /\ r.notes = Some("n")
          /\ r.end_time = Some(ToISOString(1))

\* C12: after the sequential run start at T0, ingest of one reading stamped
\* T0+1 into an empty reading store, end at T0+2 and query of the same name,
\* the query the store answered is 200 with data_count 1, the one reading as
\* its list, start_time T0 and end_time T0+2.
C12_SequentialScenario ==
    \A t0 \in 0..(MaxClock - 2) :
      \A r \in experiment_sessions :
        (/\ response.op = "query" /\ response.db = "ok"
         /\ response.name = r.experiment_name
         /\ r.start_time = ToISOString(t0)
         /\ r.end_time = Some(ToISOString(t0 + 2))
         /\ Len(gait_data) = 1
         /\ gait_data[1].timestamp = ToISOString(t0 + 1))
           => /\ response.status = 200
              /\ response.data_count = 1
              /\ response.gait_data_records = <<gait_data[1]>>
              /\ response.start_time = Some(ToISOString(t0))
              /\ response.end_time = Some(ToISOString(t0 + 2))

\* The run was made for exp1 with T0 = 0 and the query came back with the
\* reading of device A stamped 1.
C12_Witness ==
    /\ response.op = "query" /\ response.status = 200 /\ response.name = "exp1"
    /\ admitted = 4
    /\ response.start_time = Some(ToISOString(0))
    /\ response.end_time = Some(ToISOString(2))
    /\ response.data_count = 1
    /\ Len(gait_data) = 1
    /\ response.gait_data_records[1] = ReadingRow(DevA, GoodAt(1))

C14_BatchRejected ==
    (/\ response.op = "ingest" /\ response.body.kind # "badjson"
     /\ \/ response.body.device = <<>>
        \/ response.body.sdType # "array"
        \/ response.body.seconds_data = <<>>)
        => (response.status = 400 /\ response.submitted = 0 /\ response.stored = 0)

\* C15: a list the store answered returns every session of the registry
\* exactly once, open and closed alike, ordered by start_time descending, and
\* the list step changes neither the registry nor the reading store.
C15_ListComplete ==
    [][(response'.op = "list" /\ admitted' # admitted)
          => /\ experiment_sessions' = experiment_sessions
             /\ gait_data' = gait_data
             /\ response'.db = "ok" =>
                  LET listed == response'.sessions IN
                  /\ response'.status = 200
                  /\ {listed[i] : i \in 1..Len(listed)} = experiment_sessions
                  /\ Len(listed) = Cardinality(experiment_sessions)
                  /\ \A i, j \in 1..Len(listed) :
                        i < j => StrLeq(listed[j].start_time, listed[i].start_time)]_vars

\* A list returned two sessions, the later started first, one open and one
\* closed.
C15_Witness ==
    /\ response.op = "list" /\ response.status = 200
    /\ Len(response.sessions) = 2
    /\ response.sessions[1].start_time # response.sessions[2].start_time
    /\ \E i, j \in 1..2 : /\ response.sessions[i].end_time = NULL
                          /\ response.sessions[j].end_time # NULL

\* C16: in every reachable state every session whose end_time is set has
\* end_time >= start_time.
C16_EndNotBeforeStart ==
    \A r \in experiment_sessions :
       r.end_time # NULL => StrLeq(r.start_time, r.end_time[1])

\* C17: every end answered 200 on a session that was already closed replaces
\* the stored end_time with a value that is not earlier than the one it
\* overwrites.
C17_ReEndNotEarlier ==
    [][\A p \in Procs :
          (/\ pc[p] = "end_run" /\ pc'[p] = "idle"
           /\ response'.op = "end" /\ response'.status = 200)
             => \A r \in RowsFor(experiment_sessions, loc[p].name) :
                   r.end_time # NULL =>
                      \A r2 \in RowsFor(experiment_sessions', loc[p].name) :
                         /\ r2.end_time # NULL
                         /\ StrLeq(r.end_time[1], r2.end_time[1])]_vars

\* C18 as stated: a stored session row is changed only once, by the write
\* that sets its end time: a row whose end_time is set never changes again,
\* an open row changes only by getting its end_time, and no row disappears.
C18_MutatedOnce ==
    [][\A r \in experiment_sessions :
          \/ r \in experiment_sessions'
          \/ /\ r.end_time = NULL
             /\ \E r2 \in experiment_sessions' :
                   r2.end_time # NULL /\ r2 = [r EXCEPT !.end_time = r2.end_time]]_vars

\* C18 amended: a stored session row is changed only by an end of its name
\* answered 200, which sets end_time to the time that end read and nothing
\* else (whether the row was open or already closed, so a row may be changed
\* more than once), and no step removes a row.
C18_ChangedOnlyByEnd ==
    [][\A r \in experiment_sessions :
          \/ r \in experiment_sessions'
          \/ \E p \in Procs :
                /\ pc[p] = "end_run" /\ pc'[p] = "idle"
                /\ loc[p].name = r.experiment_name
                /\ response'.op = "end" /\ response'.status = 200
                /\ [r EXCEPT !.end_time = Some(loc[p].endTimeUTC)] \in experiment_sessions'
                /\ Cardinality(experiment_sessions') = Cardinality(experiment_sessions)]_vars

\* A session started at 0 and already closed was ended again: its row now
\* carries the end_time of the second end, read at clock 2.
C18_Witness ==
    /\ response.op = "end" /\ response.status = 200 /\ response.before = "closed"
    /\ response.end_time = Some(ToISOString(2))
    /\ \E r \in experiment_sessions :
          /\ r.experiment_name = response.name
          /\ r.start_time = ToISOString(0)
          /\ r.end_time = Some(ToISOString(2))

\* C19: the state of a name only moves forward along absent -> open ->
\* closed: in every step a name that has a row still has one, and a name
\* whose row has its end_time set still has a row with end_time set.
C19_StateMovesForward ==
    [][\A n \in Names :
          /\ RowsFor(experiment_sessions, n) # {}
                => RowsFor(experiment_sessions', n) # {}
          /\ (\E r \in RowsFor(experiment_sessions, n) : r.end_time # NULL)
                => \A r2 \in RowsFor(experiment_sessions', n) : r2.end_time # NULL]_vars

\* exp1 is closed and exp2 open after a duplicate start of one of them was
\* answered 409.
C19_Witness ==
    /\ response.op = "start" /\ response.status = 409
    /\ \E r1, r2 \in experiment_sessions :
          /\ r1.experiment_name = "exp1" /\ r1.end_time # NULL
          /\ r2.experiment_name = "exp2" /\ r2.end_time = NULL

\* C20: every invocation of a handler ends with a response of one of the
\* defined kinds (status 0 stands for a fault that left the handler without a
\* response).
C20_AlwaysResponds ==
    response.op \in {"start", "end", "list", "ingest", "query"}
        => response.status \in {200, 201, 202, 207, 400, 404, 405, 409, 500}

\* C21: a start or end request that fails input validation (its response
\* comes from no store call) is answered with a client error, and the step
\* that answers it issues no store call: the registry, the reading store and
\* the requests waiting on the store are as before.
C21_ValidationShortCircuits ==
    [][(response'.op \in {"start", "end"} /\ response'.db = "none")
          => /\ response'.status \in {400, 405}
             /\ experiment_sessions' = experiment_sessions
             /\ gait_data' = gait_data
             /\ pc' = pc]_vars

\* An entry the per-entry validation of C22 lets through: an object whose
\* timestamp is a text and whose samples are a non-empty list of records with
\* exactly the components w, x, y, z.
ValidEntry(e) ==
    /\ e.kind = "object" /\ e.tsType = "string" /\ e.qType = "array"
    /\ e.quaternions # <<>>
    /\ \A i \in 1..Len(e.quaternions) : DOMAIN e.quaternions[i] = {"w", "x", "y", "z"}
ValidCount(body) ==
    Cardinality({i \in 1..Len(body.seconds_data) : ValidEntry(body.seconds_data[i])})

\* C22: of a batch that passes the batch check, the entries submitted to the
\* store are exactly the valid ones: every valid entry is submitted whatever
\* entries surround it, and no other entry is.
C22_EntryValidation ==
    (/\ response.op = "ingest" /\ response.body.kind = "object"
     /\ response.body.device # <<>> /\ response.body.sdType = "array"
     /\ response.body.seconds_data # <<>>)
        => response.submitted = ValidCount(response.body)
\* C23: ingestion is not coordinated with the session state. A batch sent
\* after the session was ended is stored like any other, and a window query
\* answered 200 lists every stored reading stamped inside the window it
\* reports, the ones written after the end included; so a query made after
\* such a batch returns more readings than one made before it.
InWindowRows(rows, startTime, endTime) ==
    {i \in 1..Len(rows) : /\ StrLeq(startTime, rows[i].timestamp)
                          /\ StrLeq(rows[i].timestamp, endTime)}

C23_LateReadingsQueried ==
    /\ [](response.op = "query" /\ response.status = 200
            => /\ response.data_count =
                    Cardinality(InWindowRows(gait_data, response.start_time[1],
                                             response.end_time[1]))
               /\ \A i \in InWindowRows(gait_data, response.start_time[1],
                                         response.end_time[1]) :
                     \E k \in 1..Len(response.gait_data_records) :
                        response.gait_data_records[k] = gait_data[i])
    /\ [][(admitted' = admitted + 1 /\ response'.op = "ingest")
            => /\ response'.status = 201
               /\ gait_data' = gait_data \o Stmts(response'.body.device,
                                                  response'.body.seconds_data)]_vars

\* A closed session's query lists a reading of device A, which this client
\* sent only after its end request had returned.
C23_Witness ==
    /\ response.op = "query" /\ response.status = 200
    /\ \E k \in 1..Len(response.gait_data_records) :
          response.gait_data_records[k].device = DevA
    /\ \E r \in RowsFor(experiment_sessions, response.name) :
          r.end_time = response.end_time

\* C24: ingestion is not idempotent. When a batch that was answered 201 is
\* submitted again and the store accepts its writes, the second submission is
\* answered 201 with the same stored count and adds one more row per valid
\* entry, equal in device and timestamp to the row the first one added.
C24_NotIdempotent ==
    [][(/\ response.op = "ingest" /\ response.status = 201
        /\ admitted' = admitted + 1
        /\ response'.op = "ingest" /\ response'.body = response.body
        /\ response'.db = "ok")
          => LET n == response.stored
                 old == Len(gait_data)
             IN  /\ response'.status = 201
                 /\ response'.stored = n
                 /\ n = Len(response.body.seconds_data) - MalformedCount(response.body)
                 /\ Len(gait_data') = old + n
                 /\ \A i \in 1..n :
                       /\ gait_data'[old + i].device = gait_data[old - n + i].device
                       /\ gait_data'[old + i].timestamp = gait_data[old - n + i].timestamp
                       /\ gait_data'[old + i].device = response.body.device
                       /\ gait_data'[old + i].timestamp =
                              Stmts(response.body.device,
                                    response.body.seconds_data)[i].timestamp]_vars

\* Two one-reading submissions of device A (the store held none of its
\* readings before), the second answered 201, left two rows with the same
\* device and timestamp.
C24_Witness ==
    /\ response.op = "ingest" /\ response.status = 201 /\ response.stored = 1
    /\ Len(gait_data) = 2
    /\ gait_data[1].device = DevA /\ gait_data[2].device = DevA
    /\ gait_data[1].timestamp = gait_data[2].timestamp

\* C25: an ingestion step, whatever it answers, leaves the session registry
\* and the session requests in flight as they were, and its outcome does not
\* depend on any session: a batch of well-formed entries reaches the store
\* and is answered by what the store did with it (201 exactly when every
\* write was stored, the stored count being the rows added).
C25_RegistryUntouched ==
    [][response'.op = "ingest"
          => /\ experiment_sessions' = experiment_sessions
             /\ pc' = pc /\ loc' = loc /\ created' = created
             /\ (/\ response'.body.kind = "object" /\ response'.body.device # <<>>
                 /\ response'.body.seconds_data # <<>>
                 /\ ValidCount(response'.body) = Len(response'.body.seconds_data))
                   => /\ response'.db # "none"
                      /\ response'.stored = RowsAdded
                      /\ (response'.status = 201)
                            <=> (RowsAdded = Len(response'.body.seconds_data))]_vars

\* A batch was stored and answered 201 while the registry holds no open
\* session: exp1 was started and is closed.
C25_Witness ==
    /\ response.op = "ingest" /\ response.status = 201 /\ response.stored = 1
    /\ experiment_sessions # {}
    /\ \A r \in experiment_sessions : r.end_time # NULL

\* C26: the reading store is append-only. In every step of start, end, list,
\* query and ingest the rows stored before are still there, in place and with
\* the same device, timestamp, payload and note, and only an ingestion step
\* that reached the store adds rows.
C26_AppendOnly ==
    [][/\ Len(gait_data') >= Len(gait_data)
       /\ \A i \in 1..Len(gait_data) :
             /\ gait_data'[i].device = gait_data[i].device
             /\ gait_data'[i].timestamp = gait_data[i].timestamp
             /\ gait_data'[i].quaternions = gait_data[i].quaternions
             /\ gait_data'[i].note = gait_data[i].note
       /\ gait_data' # gait_data
             => /\ response'.op = "ingest" /\ response'.db # "none"
                /\ admitted' = admitted + 1
                /\ pc' = pc]_vars

\* A reading of device B is still the first row, with a later reading under
\* it, after a session was started and ended.
C26_Witness ==
    /\ response.op = "end" /\ response.status = 200
    /\ Len(gait_data) = 2
    /\ gait_data[1] = ReadingRow(DevB, GoodAt(1))

\* C27: when the store has dealt with a start's insert, the answer is 409
\* exactly when the store rejected it because the name already has a row
\* (reported as a failed result or as an exception), every other failure of
\* the store is answered 500, and an answer of 409 or 500 leaves the
\* registry exactly as it was.
C27_ConflictOrServerError ==
    [][\A p \in Procs :
          (pc[p] = "start_run" /\ pc'[p] = "idle")
            => /\ response'.op = "start" /\ response'.name = loc[p].name
               /\ response'.status \in {201, 409, 500}
               /\ (response'.status = 409) <=> (response'.db = "unique")
               /\ response'.db = "unique"
                     => RowsFor(experiment_sessions, loc[p].name) # {}
               /\ response'.db \in {"error", "throw"} => response'.status = 500
               /\ response'.status \in {409, 500}
                     => experiment_sessions' = experiment_sessions]_vars

\* A start of a name that has no session met a store failure: it was answered
\* 500 and the name still has no row, while the other name's row is there.
C27_Witness ==
    /\ response.op = "start" /\ response.status = 500
    /\ response.db \in {"error", "throw"}
    /\ RowsFor(experiment_sessions, response.name) = {}
    /\ experiment_sessions # {}

\* C28: a window query answered 200 is consistent in itself, whatever end or
\* ingest ran between its session lookup and its range query: every reading
\* it lists is stamped inside the [start_time, end_time] the same response
\* reports, and data_count is the length of the list.
C28_SelfConsistentResponse ==
    (response.op = "query" /\ response.status = 200)
        => /\ response.start_time # NULL /\ response.end_time # NULL
           /\ response.data_count = Len(response.gait_data_records)
           /\ \A k \in 1..Len(response.gait_data_records) :
                 /\ StrLeq(response.start_time[1],
                           response.gait_data_records[k].timestamp)
                 /\ StrLeq(response.gait_data_records[k].timestamp,
                           response.end_time[1])

\* The session was ended again between the lookup and the range query: the
\* response reports the end_time the lookup read, not the one now stored,
\* with the reading inside that window.
C28_Witness ==
    /\ response.op = "query" /\ response.status = 200
    /\ response.data_count = 1
    /\ \E r \in RowsFor(experiment_sessions, response.name) :
          r.end_time # NULL /\ r.end_time # response.end_time

\* C29: when the store answered the batch with one outcome per write, the
\* response is 201 exactly when no write failed and 207 otherwise, never a
\* server error; with every write failed it is 207 reporting 0 stored and one
\* failure detail per submitted write, and no row is added.
C29_AllFailedStillReported ==
    [][(admitted' = admitted + 1 /\ response'.op = "ingest" /\ response'.db # "throw")
          => /\ response'.status \in {201, 207}
             /\ (response'.status = 201) <=> (RowsAdded = response'.submitted)
             /\ (response'.status = 201) <=> (response'.errors = <<>>)
             /\ RowsAdded = 0
                   => /\ response'.status = 207
                      /\ response'.stored = 0
                      /\ response'.submitted > 0
                      /\ Len(response'.errors) = response'.submitted]_vars

\* Both writes of a two-entry batch failed: 207, nothing stored, two failure
\* details.
C29_Witness ==
    /\ response.op = "ingest" /\ response.status = 207
    /\ response.submitted = 2 /\ response.stored = 0
    /\ Len(response.errors) = 2
    /\ gait_data \in InitReadings

\* C30: a response carries Access-Control-Allow-Origin only when the
\* request's Origin is one of the two allowed origins, and then with exactly
\* that origin as its value; with an absent or unlisted Origin the header is
\* not added, on routed responses and on the OPTIONS preflight alike; and a
\* routed handler's status is passed through unchanged.
AllowOriginValues(headers) ==
    {h[2] : h \in {x \in headers : x[1] = "Access-Control-Allow-Origin"}}

C30_CorsOriginEcho ==
    response.op = "fetch"
        => LET listed == response.request.origin
                            \in {"http://localhost:5173", "https://gait-ui.pages.dev"}
           IN  /\ AllowOriginValues(response.headers) # {}
                     => /\ listed
                        /\ AllowOriginValues(response.headers) = {response.request.origin}
               /\ (listed /\ response.handled)
                     => AllowOriginValues(response.headers) # {}
               /\ response.request.method = "OPTIONS" => response.status = 200
               /\ (response.request.method # "OPTIONS" /\ response.original.handled)
                     => /\ response.handled
                        /\ response.status = response.original.status
                        /\ response.original.headers \subseteq response.headers

\* A start answered 409 by its handler went out as 409 to a listed origin
\* with that origin in the header.
C30_Witness ==
    /\ response.op = "fetch" /\ response.status = 409
    /\ response.request.origin = "https://gait-ui.pages.dev"
    /\ <<"Access-Control-Allow-Origin", "https://gait-ui.pages.dev">> \in response.headers
    /\ <<"Content-Type", "application/json">> \in response.headers

====
